---- MODULE Spec2Model ----
(***************************************************************************)
(* A model of iexfinance/stock.py: one StockReader instance, from its      *)
(* construction through refreshes and accessor calls, and one              *)
(* HistoricalReader instance, from its construction through its fetch.     *)
(* The transport (_IEXBase.fetch) is the environment: each request either  *)
(* raises or answers with a mapping symbol -> endpoint -> value.           *)
(***************************************************************************)
EXTENDS Integers, Sequences, FiniteSets, TLC

\* ------------------------------------------------------------------ bounds
\* Refreshes of one instance, the one run by construction included.
MaxRefresh == 2
\* How many years before the current one a start date may lie.
MaxYearsBack == 6

\* ------------------------------------------------------- program constants
_RANGE_VALUES == <<"1m", "5y", "2y", "1y", "ytd", "6m", "3m", "1d">>

_ENDPOINTS == <<"chart", "quote", "book", "open-close", "previous",
                "company", "stats", "peers", "relevant", "news",
                "financials", "earnings", "dividends", "splits", "logo",
                "price", "delayed-quote", "effective-spread",
                "volume-by-venue", "ohlc">>

\* str.join: the elements of seq separated by sep.
RECURSIVE Join(_, _)
Join(sep, seq) ==
    IF Len(seq) = 0 THEN ""
    ELSE IF Len(seq) = 1 THEN seq[1]
    ELSE seq[1] \o sep \o Join(sep, Tail(seq))

\* Python's slice seq[lo:hi] (0-based, hi exclusive, clipped to the length).
Slice(seq, lo, hi) ==
    LET h == IF hi > Len(seq) THEN Len(seq) ELSE hi
    IN  IF lo >= h THEN << >> ELSE SubSeq(seq, lo + 1, h)

ALL_ENDPOINTS_STR_1 == Join(",", Slice(_ENDPOINTS, 0, 10))
\* The second group starting one name early, at the last of the first.
ALL_ENDPOINTS_STR_2_from9 == Join(",", Slice(_ENDPOINTS, 9, 20))
ALL_ENDPOINTS_STR_2 == Join(",", Slice(_ENDPOINTS, 10, 20))

\* The names a comma-joined types string asks for: the catalog names in it.
Split(seq) == {seq[i] : i \in 1..Len(seq)}

TypesOf(str) ==
    IF str = ALL_ENDPOINTS_STR_1 THEN Split(Slice(_ENDPOINTS, 0, 10))
    ELSE IF str = ALL_ENDPOINTS_STR_2 THEN Split(Slice(_ENDPOINTS, 10, 20))
    ELSE {}

\* str.upper on the symbols of the model.
Upper(s) ==
    CASE s = "a" -> "A"
      [] s = "b" -> "B"
      [] OTHER   -> s

\* An empty dict.
EmptyDict == [x \in {} |-> x]

\* dict.update: d with every entry of other put into it.
\* dict.update keeping the value d already has for a key of other.
UpdateKeepExisting(d, other) ==
    [k \in DOMAIN d \cup DOMAIN other |->
        IF k \in DOMAIN d THEN d[k] ELSE other[k]]

Update(d, other) ==
    [k \in DOMAIN d \cup DOMAIN other |->
        IF k \in DOMAIN other THEN other[k] ELSE d[k]]

NoError == [type |-> "", arg |-> ""]
Raise(type, arg) == [type |-> type, arg |-> arg]

\* ------------------------------------------------------------------- state
VARIABLES
    pc,             \* "new": not constructed, "live": constructed, "dead": __init__ raised
    args,           \* the constructor's arguments
    symbols,        \* self.symbols
    key,            \* self.key
    output_format,  \* self.output_format
    displayPercent, \* self.displayPercent
    range,          \* self.range
    last,           \* self.last
    endpoints,      \* self.endpoints
    data_set,       \* self.data_set
    has_data_set,   \* whether the attribute data_set has been assigned
    requests,       \* the transport requests issued so far (their params)
    resp1,          \* the transport's answer to the last refresh's first request
    resp2,          \* the transport's answer to the last refresh's second request
    gen,            \* number of refreshes started
    call,           \* the last operation called on the instance
    ret,            \* what it returned
    err,            \* what it raised
    warned,         \* whether it emitted the "Pandas output not supported" warning
    repeat          \* whether the last call repeated the call before it

\* The HistoricalReader instance.
VARIABLES
    h_pc,            \* "none": no such instance, "new", "built", "dead", "fetched"
    h_args,          \* the constructor's arguments
    now,             \* datetime.datetime.now() (the date)
    h_type,          \* self.type
    h_symlist,       \* self.symlist
    h_symbols,       \* self.symbols
    h_start,         \* self.start
    h_end,           \* self.end
    h_output_format, \* self.output_format
    h_requests,      \* the transport requests issued so far (their params)
    h_resp,          \* the transport's answer to the fetch
    h_ret,           \* what fetch returned
    h_err            \* what the last operation raised

hvars == <<h_pc, h_args, now, h_type, h_symlist, h_symbols, h_start, h_end,
           h_output_format, h_requests, h_resp, h_ret, h_err>>

svars == <<pc, args, symbols, key, output_format, displayPercent, range, last,
           endpoints, data_set, has_data_set, requests, resp1, resp2, gen,
           call, ret, err, warned, repeat>>

vars == <<svars, hvars>>

fields == <<symbols, key, output_format, displayPercent, range, last>>

\* ------------------------------------------------------------------ inputs
InputSymbols == {"a", "B"}

\* The symbol lists handed to the constructor: non-empty, without repeats.
SymbolLists ==
    {l \in UNION {[1..n -> InputSymbols] : n \in 1..Cardinality(InputSymbols)} :
        \A i, j \in DOMAIN l : i # j => l[i] # l[j]}

\* displayPercent arguments: the two booleans and a non-boolean (the int 4).
DisplayPercentInputs == {"False", "True", "4"}
RangeInputs == {"1m", "5y", "1yy"}
LastInputs == {0, 1, 10, 37, 50, 51, 555}
FormatInputs == {"json", "pandas"}

\* isinstance(x, bool) on the inputs above.
IsBool(x) == x \in {"False", "True"}

\* int(x) on the inputs above, which are integers.
ToInt(x) == x

NoCall == [op |-> "", isStr |-> FALSE, str |-> "", list |-> << >>]
Call(op) == [op |-> op, isStr |-> FALSE, str |-> "", list |-> << >>]
NoRet == [kind |-> "", val |-> << >>]
NoResp == [raised |-> FALSE, sent |-> FALSE, body |-> EmptyDict]

\* ------------------------------------------------------------- transport
\* The endpoints whose values the model follows: one of each request group.
TrackedEndpoints == {"quote", "price"}

\* A value of endpoint e as the server sends it, tagged with its provenance
\* (refresh number, request group, symbol): quote is a mapping of fields,
\* price a scalar.
Value(e, tag) == IF e = "quote" THEN [companyName |-> tag] ELSE tag

\* The answers the server can give to a request for the symbols syms and the
\* types string types: any subset of the symbols (an unknown symbol is left
\* out), each with the tracked endpoints asked for, or with every tracked
\* endpoint (a server that ignores the types filter).
Responses(syms, types, g, grp) ==
    LET own == TrackedEndpoints \cap TypesOf(types)
        Data(s, all) ==
            [e \in (IF all THEN TrackedEndpoints ELSE own) |->
                Value(e, <<g, grp, s>>)]
    IN  UNION {{[s \in K |-> Data(s, x[s])] : x \in [K -> BOOLEAN]} :
                K \in SUBSET syms}

\* _IEXBase.fetch: the request returns a parsed response or raises.
FetchOutcomes(syms, types, g, grp) ==
    {[raised |-> TRUE, sent |-> TRUE, body |-> EmptyDict]} \cup
    {[raised |-> FALSE, sent |-> TRUE, body |-> b] :
        b \in Responses(syms, types, g, grp)}

\* ------------------------------------------------------------ StockReader
\* _default_options with "or" written for "and".
_default_options_any(rng, lst, dp) == rng = "1m" \/ lst = 10 \/ dp = "False"

\* StockReader._default_options
_default_options(rng, lst, dp) == rng = "1m" /\ lst = 10 /\ dp = "False"

\* StockReader.params
params(syms, eps, rng, lst, dp) ==
    LET base == [symbols |-> Join(",", syms), types |-> eps]
    IN  IF ~_default_options(rng, lst, dp)
        THEN [symbols |-> base.symbols, types |-> base.types,
              range |-> rng, last |-> lst, displayPercent |-> dp]
        ELSE base

\* The parameter checking with the upper limit of last off by one.
CheckParametersOffByOne(dp, rng, lst) ==
    IF ~IsBool(dp) THEN Raise("TypeError", "displayPercent")
    ELSE IF rng \notin Split(_RANGE_VALUES) THEN Raise("ValueError", "range")
    ELSE IF ToInt(lst) >= 50 \/ ToInt(lst) < 1 THEN Raise("ValueError", "last")
    ELSE NoError

\* The parameter checking of StockReader.__init__: the error it raises.
CheckParameters(dp, rng, lst) ==
    IF ~IsBool(dp) THEN Raise("TypeError", "displayPercent")
    ELSE IF rng \notin Split(_RANGE_VALUES) THEN Raise("ValueError", "range")
    ELSE IF ToInt(lst) > 50 \/ ToInt(lst) < 1 THEN Raise("ValueError", "last")
    ELSE NoError

\* The loop of refresh with the second response assigned, not merged.
RECURSIVE MergeLoopAssign(_, _, _, _)
MergeLoopAssign(syms, i, ds, data2) ==
    IF i > Len(syms) THEN [err |-> NoError, data_set |-> ds]
    ELSE IF syms[i] \notin DOMAIN ds
         THEN [err |-> Raise("IEXSymbolError", syms[i]), data_set |-> ds]
    ELSE IF syms[i] \notin DOMAIN data2
         THEN [err |-> Raise("KeyError", syms[i]), data_set |-> ds]
    ELSE MergeLoopAssign(syms, i + 1,
                         [ds EXCEPT ![syms[i]] = data2[syms[i]]], data2)

\* The loop of refresh with the existence check left out: a symbol the
\* first response lacks is skipped.
RECURSIVE MergeLoopNoCheck(_, _, _, _)
MergeLoopNoCheck(syms, i, ds, data2) ==
    IF i > Len(syms) THEN [err |-> NoError, data_set |-> ds]
    ELSE IF syms[i] \notin DOMAIN ds
         THEN MergeLoopNoCheck(syms, i + 1, ds, data2)
    ELSE IF syms[i] \notin DOMAIN data2
         THEN [err |-> Raise("KeyError", syms[i]), data_set |-> ds]
    ELSE MergeLoopNoCheck(syms, i + 1,
                   [ds EXCEPT ![syms[i]] = Update(ds[syms[i]], data2[syms[i]])],
                   data2)

\* The loop of StockReader.refresh from the i-th symbol on: ds is
\* self.data_set so far, data2 the second response.
RECURSIVE MergeLoop(_, _, _, _)
MergeLoop(syms, i, ds, data2) ==
    IF i > Len(syms) THEN [err |-> NoError, data_set |-> ds]
    ELSE IF syms[i] \notin DOMAIN ds
         THEN [err |-> Raise("IEXSymbolError", syms[i]), data_set |-> ds]
    ELSE IF syms[i] \notin DOMAIN data2
         THEN [err |-> Raise("KeyError", syms[i]), data_set |-> ds]
    ELSE MergeLoop(syms, i + 1,
                   [ds EXCEPT ![syms[i]] = Update(ds[syms[i]], data2[syms[i]])],
                   data2)

\* StockReader.refresh on an instance whose data_set is old (assigned or
\* not), the transport answering r1 then r2: the error raised, the data_set
\* left behind, the value of self.endpoints and the requests issued.
RefreshResult(syms, rng, lst, dp, old, had, r1, r2) ==
    LET req1 == params(syms, ALL_ENDPOINTS_STR_1, rng, lst, dp)
        req2 == params(syms, ALL_ENDPOINTS_STR_2, rng, lst, dp)
    IN  IF r1.raised
        THEN [err |-> Raise("IEXQueryError", ""), data_set |-> old,
              has_data_set |-> had, endpoints |-> ALL_ENDPOINTS_STR_1,
              requests |-> <<req1>>, second |-> FALSE]
        ELSE IF r2.raised
        THEN [err |-> Raise("IEXQueryError", ""), data_set |-> r1.body,
              has_data_set |-> TRUE, endpoints |-> ALL_ENDPOINTS_STR_2,
              requests |-> <<req1, req2>>, second |-> TRUE]
        ELSE LET m == MergeLoop(syms, 1, r1.body, r2.body)
             IN  [err |-> m.err, data_set |-> m.data_set,
                  has_data_set |-> TRUE, endpoints |-> ALL_ENDPOINTS_STR_2,
                  requests |-> <<req1, req2>>, second |-> TRUE]

\* The refresh of an instance with the given fields, as a step: the
\* transport's two answers are chosen here.
DoRefresh(syms, rng, lst, dp, live) ==
    LET S == Split(syms)
    IN  \E r1 \in FetchOutcomes(S, ALL_ENDPOINTS_STR_1, gen + 1, 1) :
        \E r2 \in FetchOutcomes(S, ALL_ENDPOINTS_STR_2, gen + 1, 2) :
            LET res == RefreshResult(syms, rng, lst, dp, data_set,
                                     has_data_set, r1, r2)
            IN  /\ gen' = gen + 1
                /\ resp1' = r1
                /\ resp2' = IF res.second THEN r2 ELSE NoResp
                /\ data_set' = res.data_set
                /\ has_data_set' = res.has_data_set
                /\ endpoints' = res.endpoints
                /\ requests' = requests \o res.requests
                /\ err' = res.err
                /\ pc' = IF live \/ res.err = NoError THEN "live" ELSE "dead"

\* StockReader.__init__
Construct ==
    /\ pc = "new"
    /\ symbols' = [i \in 1..Len(args.symbols) |-> Upper(args.symbols[i])]
    /\ key' = IF Len(args.symbols) = 1 THEN "share" ELSE "batch"
    /\ output_format' = args.output_format
    /\ displayPercent' = args.displayPercent
    /\ range' = args._range
    /\ last' = args.last
    /\ call' = Call("__init__")
    /\ ret' = NoRet
    /\ warned' = FALSE
    /\ repeat' = FALSE
    /\ UNCHANGED <<args, hvars>>
    /\ LET e == CheckParameters(args.displayPercent, args._range, args.last)
       IN  IF e # NoError
           THEN /\ err' = e
                /\ pc' = "dead"
                /\ UNCHANGED <<endpoints, data_set, has_data_set, requests,
                               resp1, resp2, gen>>
           ELSE DoRefresh(symbols', args._range, args.last,
                          args.displayPercent, FALSE)

\* StockReader.refresh, called on a constructed instance.
Refresh ==
    /\ pc = "live"
    /\ gen < MaxRefresh
    /\ call' = Call("refresh")
    /\ ret' = NoRet
    /\ warned' = FALSE
    /\ repeat' = FALSE
    /\ UNCHANGED <<args, fields, hvars>>
    /\ DoRefresh(symbols, range, last, displayPercent, TRUE)

\* ---------------------------------------------------------------- accessors
Ok(val) == [err |-> NoError, val |-> val]
Fail(type, arg) == [err |-> Raise(type, arg), val |-> << >>]

\* output_format._format_wrapper around a function whose outcome is res
\* (what it raised, or the response it returned); override is "None" or
\* "json".  The source compares with "is"; the formats and keys compared
\* are interned string literals, for which identity is equality.  The
\* pandas branch with an override warns and falls off the end of the
\* function: the call returns None.
_format_wrapper(override, res, fmt, k, syms) ==
    IF res.err # NoError
    THEN [err |-> res.err, ret |-> NoRet, warned |-> FALSE]
    ELSE IF fmt = "pandas"
    THEN IF override = "None"
         THEN [err |-> NoError, warned |-> FALSE,
               ret |-> [kind |-> "DataFrame", val |-> res.val]]
         ELSE [err |-> NoError, warned |-> TRUE,
               ret |-> [kind |-> "None", val |-> << >>]]
    ELSE IF k = "share"
    THEN IF syms[1] \in DOMAIN res.val
         THEN [err |-> NoError, warned |-> FALSE,
               ret |-> [kind |-> "json", val |-> res.val[syms[1]]]]
         ELSE [err |-> Raise("KeyError", syms[1]), ret |-> NoRet,
               warned |-> FALSE]
    ELSE [err |-> NoError, warned |-> FALSE,
          ret |-> [kind |-> "json", val |-> res.val]]

\* StockReader.get_all, undecorated.
get_all_func(ds) == Ok(ds)

\* The undecorated body of an endpoint accessor (get_quote, get_price, ...):
\* {symbol: data_set[symbol][ep] for symbol in data_set.keys()}.
endpoint_func(ds, ep) ==
    IF \E s \in DOMAIN ds : ep \notin DOMAIN ds[s]
    THEN Fail("KeyError", ep)
    ELSE Ok([s \in DOMAIN ds |-> ds[s][ep]])

\* StockReader.get_quote
get_quote(ds, fmt, k, syms) ==
    _format_wrapper("None", endpoint_func(ds, "quote"), fmt, k, syms)

\* StockReader.get_price
get_price(ds, fmt, k, syms) ==
    _format_wrapper("json", endpoint_func(ds, "price"), fmt, k, syms)

\* The undecorated body of a field accessor over get_quote
\* (get_company_name, ...): {symbol: get_quote()[symbol][field] if key ==
\* 'batch' else get_quote()[field] for symbol in data_set.keys()}.
field_func(ds, field, fmt, k, syms) ==
    IF DOMAIN ds = {} THEN Ok(EmptyDict)
    ELSE LET q == get_quote(ds, fmt, k, syms)
         IN  IF q.err # NoError THEN [err |-> q.err, val |-> << >>]
             ELSE IF k = "batch"
             THEN \* a mapping, or a DataFrame whose columns are the symbols
                  IF \E s \in DOMAIN ds : field \notin DOMAIN q.ret.val[s]
                  THEN Fail("KeyError", field)
                  ELSE Ok([s \in DOMAIN ds |-> q.ret.val[s][field]])
             ELSE IF q.ret.kind = "DataFrame"
             THEN \* the columns of the DataFrame are the symbols
                  IF field \in DOMAIN q.ret.val
                  THEN Ok([s \in DOMAIN ds |-> q.ret.val[field]])
                  ELSE Fail("KeyError", field)
             ELSE IF field \in DOMAIN q.ret.val
                  THEN Ok([s \in DOMAIN ds |-> q.ret.val[field]])
                  ELSE Fail("KeyError", field)

\* StockReader.get_company_name
get_company_name(ds, fmt, k, syms) ==
    _format_wrapper("json", field_func(ds, "companyName", fmt, k, syms),
                    fmt, k, syms)

\* StockReader.get_all
get_all(ds, fmt, k, syms) ==
    _format_wrapper("json", get_all_func(ds), fmt, k, syms)

\* The symbol loop of StockReader.get_select_endpoints from the i-th symbol
\* on: bound says whether the local ds has been assigned, ds is its value,
\* eps the (non-empty) endpoint list and result the mapping built so far.
RECURSIVE select_loop(_, _, _, _, _, _, _)
select_loop(data, syms, i, bound, ds, eps, result) ==
    IF i > Len(syms) THEN Ok(result)
    ELSE LET found == syms[i] \in DOMAIN data
             b == bound \/ found
             d == IF found THEN data[syms[i]] ELSE ds
             missing == {j \in 1..Len(eps) : eps[j] \notin DOMAIN d}
             first == CHOOSE j \in missing : \A m \in missing : j <= m
         IN  IF ~b THEN Fail("UnboundLocalError", "ds")
             ELSE IF missing # {} THEN Fail("IEXEndpointError", eps[first])
             ELSE select_loop(data, syms, i + 1, b, d, eps,
                     Update(result,
                            [s \in {syms[i]} |-> [e \in Split(eps) |-> d[e]]]))

\* StockReader.get_select_endpoints, undecorated; c carries the argument
\* (a string, or a list).
get_select_endpoints_func(data, syms, c) ==
    IF ~c.isStr /\ Len(c.list) = 0
    THEN Fail("ValueError", "endpoints")
    ELSE select_loop(data, syms, 1, FALSE, EmptyDict,
                     IF c.isStr THEN <<c.str>> ELSE c.list, EmptyDict)

\* StockReader.get_select_endpoints
get_select_endpoints(ds, fmt, k, syms, c) ==
    _format_wrapper("json", get_select_endpoints_func(ds, syms, c),
                    fmt, k, syms)

\* The endpoints arguments tried: none (the default, []), a string, lists.
StrArg(x) == [op |-> "get_select_endpoints", isStr |-> TRUE, str |-> x,
              list |-> << >>]
ListArg(l) == [op |-> "get_select_endpoints", isStr |-> FALSE, str |-> "",
               list |-> l]
SelectCalls ==
    {ListArg(<< >>), StrArg("quote"), StrArg("BADENDPOINT"),
     ListArg(<<"price">>), ListArg(<<"quote", "price">>)}

AccessorOps == {"get_all", "get_quote", "get_price", "get_company_name",
                "get_select_endpoints"}

\* An accessor that consumes what it reads: the first symbol's entry is
\* popped from data_set.
AccessorPop(c, out) ==
    /\ pc = "live"
    /\ call' = c
    /\ ret' = out.ret
    /\ err' = out.err
    /\ warned' = out.warned
    /\ repeat' = (call = c)
    /\ data_set' = [s \in DOMAIN data_set \ {symbols[1]} |-> data_set[s]]
    /\ UNCHANGED <<pc, args, fields, endpoints, has_data_set,
                   requests, resp1, resp2, gen, hvars>>

\* An accessor called on a constructed instance: c is the call, out what
\* the decorated method does in the current state.
Accessor(c, out) ==
    /\ pc = "live"
    /\ call' = c
    /\ ret' = out.ret
    /\ err' = out.err
    /\ warned' = out.warned
    /\ repeat' = (call = c)
    /\ UNCHANGED <<pc, args, fields, endpoints, data_set, has_data_set,
                   requests, resp1, resp2, gen, hvars>>

GetAll ==
    Accessor(Call("get_all"), get_all(data_set, output_format, key, symbols))

GetQuote ==
    Accessor(Call("get_quote"),
             get_quote(data_set, output_format, key, symbols))

GetPrice ==
    Accessor(Call("get_price"),
             get_price(data_set, output_format, key, symbols))

GetCompanyName ==
    Accessor(Call("get_company_name"),
             get_company_name(data_set, output_format, key, symbols))

GetSelectEndpoints ==
    \E c \in SelectCalls :
        Accessor(c, get_select_endpoints(data_set, output_format, key,
                                         symbols, c))


\* -------------------------------------------------------- HistoricalReader
\* A date, as datetime holds it.
Date(y, m, d) == [year |-> y, month |-> m, day |-> d]
NoDate == Date(0, 0, 0)

\* datetime.datetime.now().year
ThisYear == 2018

\* The days fetch is called on.
CurrentDates == {Date(ThisYear, 6, 15), Date(ThisYear, 12, 15)}

\* The start and end dates handed to the constructor.
StartDates ==
    {Date(y, m, 15) : y \in (ThisYear - MaxYearsBack)..(ThisYear + 1),
                      m \in {1, 12}}
EndDates == {Date(ThisYear - 1, 12, 15), Date(ThisYear, 6, 15)}

\* The symbols arguments handed to the constructor: a string, lists of
\* length 0, 1 and 2, and a value that is neither (the int 34).
StrSymbols(x) == [kind |-> "str", str |-> x, list |-> << >>]
ListSymbols(l) == [kind |-> "list", str |-> "", list |-> l]
OtherSymbols == [kind |-> "int", str |-> "", list |-> << >>]
SymbolsInputs ==
    {StrSymbols("A"), ListSymbols(<< >>), ListSymbols(<<"A">>),
     ListSymbols(<<"A", "B">>), ListSymbols(<<"B", "A">>), OtherSymbols}

HistoricalArgs ==
    [symbols : SymbolsInputs, start : StartDates, end : EndDates,
     output_format : FormatInputs]

\* The classification of the symbols argument by HistoricalReader.__init__
\* with the list test "len(symbols) > 0".
classify_nonempty(sym) ==
    IF sym.kind = "list" /\ Len(sym.list) > 0
    THEN [err |-> NoError, type |-> "Batch", symlist |-> sym.list]
    ELSE IF sym.kind = "str"
    THEN [err |-> NoError, type |-> "Share", symlist |-> <<sym.str>>]
    ELSE [err |-> Raise("ValueError", "symbols"), type |-> "",
          symlist |-> << >>]

\* The classification of the symbols argument by HistoricalReader.__init__.
classify(sym) ==
    IF sym.kind = "list" /\ Len(sym.list) > 1
    THEN [err |-> NoError, type |-> "Batch", symlist |-> sym.list]
    ELSE IF sym.kind = "str"
    THEN [err |-> NoError, type |-> "Share", symlist |-> <<sym.str>>]
    ELSE [err |-> Raise("ValueError", "symbols"), type |-> "",
          symlist |-> << >>]

\* HistoricalReader.__init__
HistConstruct ==
    /\ h_pc = "new"
    /\ LET c == classify(h_args.symbols)
       IN  IF c.err # NoError
           THEN /\ h_err' = c.err
                /\ h_pc' = "dead"
                /\ UNCHANGED <<h_type, h_symlist, h_symbols, h_start, h_end,
                               h_output_format>>
           ELSE /\ h_err' = NoError
                /\ h_pc' = "built"
                /\ h_type' = c.type
                /\ h_symlist' = c.symlist
                /\ h_symbols' = h_args.symbols
                /\ h_start' = h_args.start
                /\ h_end' = h_args.end
                /\ h_output_format' = h_args.output_format
    /\ UNCHANGED <<h_args, now, h_requests, h_resp, h_ret, svars>>

\* chart_range with the two upper branches tested in the other order.
chart_range_swapped(today, start) ==
    LET delta == today.year - start.year
    IN  IF 1 <= delta /\ delta <= 2 THEN [err |-> NoError, val |-> "2y"]
        ELSE IF 2 <= delta /\ delta <= 5 THEN [err |-> NoError, val |-> "5y"]
        ELSE IF 0 <= delta /\ delta < 1 THEN [err |-> NoError, val |-> "1y"]
        ELSE [err |-> Raise("ValueError", "date"), val |-> ""]

\* HistoricalReader.chart_range
chart_range(today, start) ==
    LET delta == today.year - start.year
    IN  IF 2 <= delta /\ delta <= 5 THEN [err |-> NoError, val |-> "5y"]
        ELSE IF 1 <= delta /\ delta <= 2 THEN [err |-> NoError, val |-> "2y"]
        ELSE IF 0 <= delta /\ delta < 1 THEN [err |-> NoError, val |-> "1y"]
        ELSE [err |-> Raise("ValueError", "date"), val |-> ""]

\* HistoricalReader.params, once chart_range has returned rng.
h_params(type, sym, rng) ==
    [symbols |-> IF type = "Batch" THEN Join(",", sym.list) ELSE sym.str,
     types |-> "chart",
     range |-> rng]

\* strftime('%Y-%m-%d'): the string 'YYYY-MM-DD', held as the number
\* YYYYMMDD, whose order is the order of the strings.
DateStr(d) == d.year * 10000 + d.month * 100 + d.day

\* The columns _output_format keeps, and the fields of a bar of the response.
values == {"open", "high", "low", "close", "volume"}
BarFields == values \cup {"date", "vwap"}

\* The days the server has bars for.
BarDates == {Date(ThisYear - 1, 1, 15), Date(ThisYear - 1, 12, 15),
             Date(ThisYear, 1, 15)}

\* The number of years a lookback bucket spans.
YearsOf(rng) == CASE rng = "1y" -> 1 [] rng = "2y" -> 2 [] rng = "5y" -> 5

\* The bucket rng, counted back from today, reaches the day d.
Reaches(rng, today, d) == DateStr(d) >= DateStr(today) - YearsOf(rng) * 10000

\* The bar of symbol s for day d, each field tagged with its provenance.
Bar(s, d) ==
    [f \in BarFields |-> IF f = "date" THEN DateStr(d) ELSE <<s, DateStr(d), f>>]

\* The days of S in ascending order.
RECURSIVE SortedDates(_)
SortedDates(S) ==
    IF S = {} THEN << >>
    ELSE LET m == CHOOSE x \in S : \A y \in S : DateStr(x) <= DateStr(y)
         IN  <<m>> \o SortedDates(S \ {m})

\* The answers the server can give to a chart request for the symbols syms
\* and the bucket rng: any subset of the symbols, each with a chart of some of
\* the bars of the bucket, in ascending order of date.
HistResponses(syms, rng, today) ==
    LET days == {d \in BarDates : Reaches(rng, today, d)}
        Chart(s, D) == LET sd == SortedDates(D)
                       IN  [j \in 1..Len(sd) |-> Bar(s, sd[j])]
    IN  UNION {{[s \in K |-> [chart |-> Chart(s, x[s])]] :
                    x \in [K -> SUBSET days]} : K \in SUBSET syms}

\* _IEXBase.fetch for the chart request: it returns a parsed response or
\* raises.
HistFetchOutcomes(syms, rng, today) ==
    {[raised |-> TRUE, sent |-> TRUE, body |-> EmptyDict]} \cup
    {[raised |-> FALSE, sent |-> TRUE, body |-> b] :
        b \in HistResponses(syms, rng, today)}

\* df.loc[sstart:send] on a frame indexed by ascending date strings, with
\* the end label left out.
loc_exclusive(df, sstart, send) ==
    [k \in {x \in DOMAIN df : sstart <= x /\ x < send} |-> df[k]]

\* df.loc[sstart:send] on a frame indexed by ascending date strings: the
\* rows whose label lies between the two, both included.
loc(df, sstart, send) ==
    [k \in {x \in DOMAIN df : sstart <= x /\ x <= send} |-> df[k]]

\* The loop of HistoricalReader._output_format from the i-th symbol on: out
\* is the response (popped as it is read), result the mapping built so far.
RECURSIVE format_loop(_, _, _, _, _, _)
format_loop(out, symlist, i, start, end, result) ==
    IF i > Len(symlist) THEN Ok(result)
    ELSE LET sym == symlist[i]
         IN  IF sym \notin DOMAIN out THEN Fail("KeyError", sym)
             ELSE LET d == out[sym].chart
                      df == [k \in {d[j].date : j \in 1..Len(d)} |->
                                LET j == CHOOSE j \in 1..Len(d) : d[j].date = k
                                IN  [f \in values |-> d[j][f]]]
                  IN  IF Len(d) = 0 THEN Fail("KeyError", "date")
                      ELSE format_loop(
                               [s \in DOMAIN out \ {sym} |-> out[s]],
                               symlist, i + 1, start, end,
                               Update(result,
                                      [s \in {sym} |->
                                          loc(df, DateStr(start), DateStr(end))]))

\* HistoricalReader._output_format
_output_format(out, type, symlist, sym, start, end, fmt) ==
    LET res == format_loop(out, symlist, 1, start, end, EmptyDict)
    IN  IF res.err # NoError THEN [err |-> res.err, ret |-> NoRet]
        ELSE IF fmt = "pandas"
        THEN IF Cardinality(DOMAIN res.val) > 1
             THEN [err |-> NoError,
                   ret |-> [kind |-> "dict of DataFrame", val |-> res.val]]
             ELSE IF type = "Share"
             THEN [err |-> NoError,
                   ret |-> [kind |-> "DataFrame", val |-> res.val[sym.str]]]
             ELSE [err |-> Raise("TypeError", "unhashable"), ret |-> NoRet]
        ELSE [err |-> NoError, ret |-> [kind |-> "json", val |-> res.val]]

\* The validation of HistoricalReader.fetch left out.
validate_none(symlist, response) == NoError

\* The validation of HistoricalReader.fetch: the error raised for the first
\* symbol of the list the response lacks.
validate(symlist, response) ==
    LET missing == {i \in 1..Len(symlist) : symlist[i] \notin DOMAIN response}
        first == CHOOSE i \in missing : \A j \in missing : i <= j
    IN  IF missing = {} THEN NoError
        ELSE Raise("IEXSymbolError", symlist[first])

\* HistoricalReader.fetch
HistFetch ==
    /\ h_pc = "built"
    /\ h_pc' = "fetched"
    /\ LET cr == chart_range(now, h_start)
       IN  IF cr.err # NoError
           THEN /\ h_err' = cr.err
                /\ h_ret' = NoRet
                /\ UNCHANGED <<h_requests, h_resp>>
           ELSE \E r \in HistFetchOutcomes(Split(h_symlist), cr.val, now) :
                /\ h_requests' =
                       Append(h_requests, h_params(h_type, h_symbols, cr.val))
                /\ h_resp' = r
                /\ IF r.raised
                   THEN /\ h_err' = Raise("IEXQueryError", "")
                        /\ h_ret' = NoRet
                   ELSE LET v == validate(h_symlist, r.body)
                            o == _output_format(r.body, h_type, h_symlist,
                                                h_symbols, h_start, h_end,
                                                 h_output_format)
                        IN  IF v # NoError
                            THEN h_err' = v /\ h_ret' = NoRet
                            ELSE h_err' = o.err /\ h_ret' = o.ret
    /\ UNCHANGED <<h_args, now, h_type, h_symlist, h_symbols, h_start, h_end,
                   h_output_format, svars>>

\* ------------------------------------------------------------ specification
NoSymbolsArg == [kind |-> "", str |-> "", list |-> << >>]
NoHistArgs == [symbols |-> NoSymbolsArg, start |-> NoDate, end |-> NoDate,
               output_format |-> ""]

\* The HistoricalReader instance before its construction, to be built from
\* arguments of A on a day of N.
HistoricalUnconstructed(A, N, p) ==
    /\ h_pc = p
    /\ h_args \in A
    /\ now \in N
    /\ h_type = ""
    /\ h_symlist = << >>
    /\ h_symbols = NoSymbolsArg
    /\ h_start = NoDate
    /\ h_end = NoDate
    /\ h_output_format = ""
    /\ h_requests = << >>
    /\ h_resp = NoResp
    /\ h_ret = NoRet
    /\ h_err = NoError

NoArgs == [symbols |-> << >>, displayPercent |-> "", _range |-> "",
           last |-> 0, output_format |-> ""]

\* The StockReader instance before its construction from arguments of A.
StockUnconstructed(A, p) ==
    /\ args \in A
    /\ pc = p
    /\ symbols = << >>
    /\ key = ""
    /\ output_format = ""
    /\ displayPercent = ""
    /\ range = ""
    /\ last = 0
    /\ endpoints = ""
    /\ data_set = EmptyDict
    /\ has_data_set = FALSE
    /\ requests = << >>
    /\ resp1 = NoResp
    /\ resp2 = NoResp
    /\ gen = 0
    /\ call = NoCall
    /\ ret = NoRet
    /\ err = NoError
    /\ warned = FALSE
    /\ repeat = FALSE

Unconstructed(A) ==
    /\ HistoricalUnconstructed({NoHistArgs}, {NoDate}, "none")
    /\ StockUnconstructed(A, "new")

\* Constructor arguments that vary the symbol list and the output format.
DataArgs ==
    [symbols : SymbolLists, displayPercent : {"False"}, _range : {"1m", "5y"},
     last : {10}, output_format : FormatInputs]

\* Constructor arguments that vary the query options.
OptionArgs ==
    [symbols : {<<"a">>}, displayPercent : DisplayPercentInputs,
     _range : RangeInputs, last : LastInputs, output_format : {"json"}]

Init == Unconstructed(DataArgs)

InitOptions == Unconstructed(OptionArgs)

Next ==
    \/ Construct
    \/ Refresh
    \/ GetAll
    \/ GetQuote
    \/ GetPrice
    \/ GetCompanyName
    \/ GetSelectEndpoints

Spec == Init /\ [][Next]_vars

SpecOptions == InitOptions /\ [][Next]_vars

InitHistorical ==
    /\ HistoricalUnconstructed(HistoricalArgs, CurrentDates, "new")
    /\ StockUnconstructed({NoArgs}, "none")

NextHistorical ==
    \/ HistConstruct
    \/ HistFetch

SpecHistorical == InitHistorical /\ [][NextHistorical]_vars

\* ------------------------------------------------------------------ claims
RefreshOps == {"__init__", "refresh"}

\* The state is the one a refresh (construction's included) has just left.
AfterRefresh == call.op \in RefreshOps /\ gen > 0

\* C1: after a refresh that completes without error, data_set has every
\* requested symbol as a key; the symbol's entry has exactly the endpoint
\* names of the first and of the second response for it, each with a value
\* one of the two responses gave for that name.
C1_RefreshMergesBothGroups ==
    (AfterRefresh /\ err = NoError) =>
        /\ has_data_set
        /\ \A i \in DOMAIN symbols :
            LET s == symbols[i]
            IN  /\ s \in DOMAIN data_set
                /\ s \in DOMAIN resp1.body
                /\ s \in DOMAIN resp2.body
                /\ DOMAIN data_set[s] =
                       DOMAIN resp1.body[s] \cup DOMAIN resp2.body[s]
                /\ \A e \in DOMAIN data_set[s] :
                    \/ /\ e \in DOMAIN resp1.body[s]
                       /\ data_set[s][e] = resp1.body[s][e]
                    \/ /\ e \in DOMAIN resp2.body[s]
                       /\ data_set[s][e] = resp2.body[s][e]

\* C1 witness: an explicit refresh of a two-symbol instance has completed and
\* the second symbol holds quote from the first group and price from the
\* second.
C1_Witness ==
    /\ call.op = "refresh"
    /\ err = NoError
    /\ Len(symbols) = 2
    /\ symbols[1] # symbols[2]
    /\ DOMAIN resp1.body[symbols[2]] = {"quote"}
    /\ DOMAIN resp2.body[symbols[2]] = {"price"}
    /\ DOMAIN data_set[symbols[2]] = {"quote", "price"}

\* Some requested symbol is absent from the first response of the refresh
\* that has just run.
AbsentFromFirst ==
    /\ AfterRefresh
    /\ resp1.sent
    /\ ~resp1.raised
    /\ \E i \in DOMAIN symbols : symbols[i] \notin DOMAIN resp1.body

\* C2 as claimed: a refresh whose first response lacks a requested symbol
\* fails with IEXSymbolError.
C2_AbsentSymbolRaisesSymbolError ==
    AbsentFromFirst => err.type = "IEXSymbolError"

\* C2 amended: a refresh whose first response lacks a requested symbol fails;
\* when the second request raises, the query error propagates; otherwise the
\* error is IEXSymbolError for the first absent symbol of the list, unless a
\* symbol ahead of it is missing from the second response, which raises a
\* KeyError for that symbol first.
C2_AbsentSymbolFailsRefresh ==
    AbsentFromFirst =>
        LET absent == {i \in DOMAIN symbols : symbols[i] \notin DOMAIN resp1.body}
            first == CHOOSE i \in absent : \A j \in absent : i <= j
            ahead == {j \in 1..(first - 1) : symbols[j] \notin DOMAIN resp2.body}
        IN  /\ err # NoError
            /\ IF resp2.raised THEN err.type = "IEXQueryError"
               ELSE IF ahead = {}
               THEN err = Raise("IEXSymbolError", symbols[first])
               ELSE err.type = "KeyError" /\ \E j \in ahead : err.arg = symbols[j]

\* C2 witness: a bad symbol mixed with a valid one has made construction fail
\* with IEXSymbolError for the bad symbol.
C2_Witness ==
    /\ call.op = "__init__"
    /\ Len(symbols) = 2
    /\ symbols[1] \in DOMAIN resp1.body
    /\ symbols[2] \notin DOMAIN resp1.body
    /\ err = Raise("IEXSymbolError", symbols[2])

\* The merge of both responses for every requested symbol.
CompleteMerge(ds, r1, r2) ==
    /\ r1.sent /\ ~r1.raised
    /\ r2.sent /\ ~r2.raised
    /\ \A i \in DOMAIN symbols :
        /\ symbols[i] \in DOMAIN ds
        /\ symbols[i] \in DOMAIN r1.body
        /\ symbols[i] \in DOMAIN r2.body
        /\ ds[symbols[i]] = Update(r1.body[symbols[i]], r2.body[symbols[i]])

\* C3 as claimed: a refresh that fails leaves data_set as it was before the
\* refresh started, or holding the complete merge of both responses.
C3_NoPartialMergeOnFailure ==
    [][(pc = "live" /\ call'.op = "refresh" /\ gen' = gen + 1 /\ err' # NoError)
        => \/ data_set' = data_set
           \/ CompleteMerge(data_set', resp1', resp2')]_vars

\* The options of the instance are the defaults.
AllDefault == range = "1m" /\ last = 10 /\ displayPercent = "False"

\* C4: every request carries symbols and types; it carries range, last and
\* displayPercent, with the instance's values, exactly when one of the three
\* differs from its default, and none of the three otherwise.
C4_DefaultOptionsOmitted ==
    \A n \in DOMAIN requests :
        LET r == requests[n]
        IN  /\ {"symbols", "types"} \subseteq DOMAIN r
            /\ IF AllDefault
               THEN DOMAIN r = {"symbols", "types"}
               ELSE /\ DOMAIN r = {"symbols", "types", "range", "last",
                                    "displayPercent"}
                    /\ r.range = range
                    /\ r.last = last
                    /\ r.displayPercent = displayPercent

\* C4 witness: both requests of a construction whose only non-default option
\* is last have been issued, and carry the default range too.
C4_Witness ==
    /\ Len(requests) = 2
    /\ range = "1m" /\ displayPercent = "False" /\ last = 37
    /\ "range" \in DOMAIN requests[2]
    /\ requests[2].last = 37

\* The constructor's options are invalid: displayPercent is no boolean, the
\* range is outside the enum, or last is outside [1, 50].
InvalidOptions ==
    \/ args.displayPercent \notin {"False", "True"}
    \/ args._range \notin {"1m", "5y", "2y", "1y", "ytd", "6m", "3m", "1d"}
    \/ args.last < 1
    \/ args.last > 50

\* C5: construction with an invalid option fails with TypeError or ValueError,
\* having issued no request and assigned no data_set; construction with valid
\* options passes the checks and issues the first request.
C5_InvalidOptionsFailEagerly ==
    call.op = "__init__" =>
        IF InvalidOptions
        THEN /\ err.type \in {"TypeError", "ValueError"}
             /\ pc = "dead"
             /\ requests = << >>
             /\ ~has_data_set
        ELSE /\ err.type \notin {"TypeError", "ValueError"}
             /\ Len(requests) >= 1

\* C5 witness: construction with last = 51 has failed with ValueError.
C5_Witness ==
    /\ call.op = "__init__"
    /\ args.last = 51
    /\ args.displayPercent = "False"
    /\ args._range = "1m"
    /\ err.type = "ValueError"

\* The endpoint list a get_select_endpoints call c asks for.
EndpointsOf(c) == IF c.isStr THEN {c.str} ELSE Split(c.list)

\* data_set holds what accessor call c reads for symbol s.
HasExpected(c, s) ==
    /\ s \in DOMAIN data_set
    /\ CASE c.op = "get_all" -> TRUE
         [] c.op = "get_quote" -> "quote" \in DOMAIN data_set[s]
         [] c.op = "get_price" -> "price" \in DOMAIN data_set[s]
         [] c.op = "get_company_name" ->
                /\ "quote" \in DOMAIN data_set[s]
                /\ "companyName" \in DOMAIN data_set[s]["quote"]
         [] c.op = "get_select_endpoints" ->
                EndpointsOf(c) \subseteq DOMAIN data_set[s]

\* The value accessor call c is to give for symbol s.
Expected(c, s) ==
    CASE c.op = "get_all" -> data_set[s]
      [] c.op = "get_quote" -> data_set[s]["quote"]
      [] c.op = "get_price" -> data_set[s]["price"]
      [] c.op = "get_company_name" -> data_set[s]["quote"]["companyName"]
      [] c.op = "get_select_endpoints" ->
             [e \in EndpointsOf(c) |-> data_set[s][e]]

\* The value accessor call c is to return in structured mode: unwrapped for
\* a symbol list of size 1, keyed by the requested symbols otherwise.
IsStructuredResult(c, v) ==
    IF Len(args.symbols) = 1
    THEN /\ HasExpected(c, symbols[1])
         /\ v = Expected(c, symbols[1])
    ELSE /\ DOMAIN v = Split(symbols)
         /\ \A s \in Split(symbols) :
                HasExpected(c, s) /\ v[s] = Expected(c, s)

\* C6 as claimed: in json mode an accessor that returns gives the unwrapped
\* value of the one symbol when the symbol list has size 1, and a mapping
\* from every requested symbol to its value when it is longer.
C6_AccessorShape ==
    (call.op \in AccessorOps /\ output_format = "json" /\ err = NoError) =>
        /\ ret.kind = "json"
        /\ IsStructuredResult(call, ret.val)

\* The accessors decorated with output_format(override='json').
JsonOnlyOps == {"get_all", "get_price", "get_company_name",
                "get_select_endpoints"}

\* C7 as claimed: in pandas mode an operation without tabular rendering
\* warns and returns the structured data, the value it returns in json mode.
C7_PandasFallsBackToJson ==
    (call.op \in JsonOnlyOps /\ output_format = "pandas" /\ err = NoError) =>
        /\ warned
        /\ ret.kind = "json"
        /\ IsStructuredResult(call, ret.val)

\* The last call is get_select_endpoints with a non-empty endpoints argument.
SelectCalled == call.op = "get_select_endpoints"
NoEndpoints == ~call.isStr /\ Len(call.list) = 0

\* C8 as claimed: get_select_endpoints raises ValueError for an empty
\* endpoint list, IEXEndpointError when a requested endpoint is missing from
\* a requested symbol's data, and otherwise succeeds with each requested
\* symbol mapped to exactly the requested endpoints and their values.
C8_SelectEndpoints ==
    SelectCalled =>
        IF NoEndpoints THEN err.type = "ValueError"
        ELSE IF \E i \in DOMAIN symbols :
                    /\ symbols[i] \in DOMAIN data_set
                    /\ ~(EndpointsOf(call) \subseteq DOMAIN data_set[symbols[i]])
        THEN err.type = "IEXEndpointError"
        ELSE (\A i \in DOMAIN symbols : symbols[i] \in DOMAIN data_set) =>
                /\ err = NoError
                /\ output_format = "json" =>
                       /\ ret.kind = "json"
                       /\ IsStructuredResult(call, ret.val)

\* C9 as claimed: get_select_endpoints raises IEXSymbolError when a symbol of
\* the symbol list is missing from data_set, and never returns a result.
C9_MissingSymbolRaises ==
    (SelectCalled /\ ~NoEndpoints
        /\ \E i \in DOMAIN symbols : symbols[i] \notin DOMAIN data_set) =>
        /\ err.type = "IEXSymbolError"
        /\ ret = NoRet

\* C10: an accessor call changes neither data_set nor symbols nor the query
\* options nor anything else of the instance, and issues no request; called
\* again with no refresh in between it returns, or raises, the same.
C10_AccessorsReadOnly ==
    [][(call'.op \in AccessorOps) =>
        /\ UNCHANGED <<data_set, has_data_set, symbols, key, output_format,
                       displayPercent, range, last, endpoints, requests>>
        /\ (call' = call) => (ret' = ret /\ err' = err)]_vars

\* C10 witness: get_company_name has been called twice in a row on a
\* two-symbol instance and has returned.
C10_Witness ==
    /\ repeat
    /\ call.op = "get_company_name"
    /\ err = NoError
    /\ Len(symbols) = 2
    /\ ret.kind = "json"


\* ---------------------------------------------------------------- requests
\* The requests a step has added to the log.
Issued == SubSeq(requests', Len(requests) + 1, Len(requests'))

\* The step is a refresh, the one of a construction included.
RefreshStep == call'.op \in RefreshOps /\ gen' = gen + 1

\* The first request of a refresh: the first 10 names of the catalog, for
\* the instance's symbols and options.
FirstGroup(first) ==
    /\ first.types =
           "chart,quote,book,open-close,previous,company,stats,peers,relevant,news"
    /\ first.symbols = Join(",", symbols')
    /\ "range" \in DOMAIN first =>
        /\ first.range = range'
        /\ first.last = last'
        /\ first.displayPercent = displayPercent'

\* The second request of a refresh: the other 10 names of the catalog, for
\* the symbols and options of the first.
SecondGroup(first, second) ==
    /\ second.types =
           "financials,earnings,dividends,splits,logo,price,delayed-quote,effective-spread,volume-by-venue,ohlc"
    /\ DOMAIN first = DOMAIN second
    /\ \A k \in DOMAIN first \ {"types"} : first[k] = second[k]

\* C16 as stated: each refresh, the one of a construction included, issues
\* exactly two requests, the first for the first 10 names of the catalog and
\* the second for the other names, both for the same symbols and options;
\* no accessor issues a request.
C16_ExactlyTwoRequests ==
    [][/\ RefreshStep =>
            /\ Len(requests') = Len(requests) + 2
            /\ SubSeq(requests', 1, Len(requests)) = requests
            /\ FirstGroup(Issued[1])
            /\ SecondGroup(Issued[1], Issued[2])
       /\ call'.op \in AccessorOps => requests' = requests]_vars

\* C16: each refresh, the one of a construction included, issues its
\* requests in order, the first for the first 10 names of the catalog and the
\* second for the other names, both for the same symbols and options: both
\* when the first request returns, the first alone when it raises. No
\* request is issued twice, and no accessor issues a request.
C16_RequestsPerRefresh ==
    [][/\ RefreshStep =>
            /\ SubSeq(requests', 1, Len(requests)) = requests
            /\ Len(Issued) = IF resp1'.raised THEN 1 ELSE 2
            /\ FirstGroup(Issued[1])
            /\ ~resp1'.raised => SecondGroup(Issued[1], Issued[2])
       /\ ~RefreshStep => requests' = requests]_vars

\* An explicit refresh of a two-symbol instance with a non-default range
\* whose first request raised: three requests are logged, two of the
\* construction and one of the refresh.
C16_Witness ==
    /\ call.op = "refresh"
    /\ resp1.raised
    /\ Len(requests) = 3
    /\ Len(symbols) = 2
    /\ requests[3].types = ALL_ENDPOINTS_STR_1
    /\ "range" \in DOMAIN requests[3]

\* The endpoint names both responses of the last refresh have for s.
Collisions(s) == DOMAIN resp1.body[s] \cap DOMAIN resp2.body[s]

\* C18 as stated: after a refresh, an endpoint name the second response has
\* for a symbol next to the first keeps the first response's value in
\* data_set.
C18_CollisionKeepsFirst ==
    (AfterRefresh /\ err = NoError) =>
        \A i \in DOMAIN symbols :
            \A e \in Collisions(symbols[i]) :
                data_set[symbols[i]][e] = resp1.body[symbols[i]][e]

\* C18: after a refresh, an endpoint name the second response has for a
\* symbol next to the first holds the second response's value in data_set;
\* the names of the first response alone keep their values.
C18_CollisionTakesSecond ==
    (AfterRefresh /\ err = NoError) =>
        \A i \in DOMAIN symbols :
            LET s == symbols[i]
            IN  /\ \A e \in Collisions(s) :
                    data_set[s][e] = resp2.body[s][e]
                /\ \A e \in DOMAIN resp1.body[s] \ DOMAIN resp2.body[s] :
                    data_set[s][e] = resp1.body[s][e]

\* Both responses of a refresh gave a quote for B, with different values,
\* and the first alone gave one for A.
C18_Witness ==
    /\ AfterRefresh /\ err = NoError
    /\ symbols = <<"A", "B">>
    /\ "quote" \in Collisions("B")
    /\ resp1.body["B"]["quote"] # resp2.body["B"]["quote"]
    /\ "quote" \notin Collisions("A")
    /\ "quote" \in DOMAIN data_set["A"]

\* ------------------------------------------------------- HistoricalReader
\* The constructor has run: it built the reader or raised.
HistConstructed == h_pc \in {"built", "dead", "fetched"}
\* fetch has run on a reader the constructor built.
HistFetched == h_pc = "fetched"
\* fetch issued its request and the transport returned a response.
HistAnswered == HistFetched /\ Len(h_requests) = 1 /\ ~h_resp.raised

\* C11: the constructor of the historical reader classifies its symbols
\* argument: a string gives type Share with a symbol list of that string, a
\* list of more than one element gives type Batch with that list, and every
\* other value (neither string nor list, the empty list, a list of one
\* symbol) raises ValueError, no reader being built and nothing requested.
C11_ClassifiesSymbols ==
    HistConstructed =>
        LET sym == h_args.symbols
        IN  /\ sym.kind = "str" =>
                /\ h_pc # "dead"
                /\ h_type = "Share"
                /\ h_symlist = <<sym.str>>
            /\ (sym.kind = "list" /\ Len(sym.list) > 1) =>
                /\ h_pc # "dead"
                /\ h_type = "Batch"
                /\ h_symlist = sym.list
            /\ (sym.kind \notin {"str", "list"}
                    \/ (sym.kind = "list" /\ Len(sym.list) <= 1)) =>
                /\ h_pc = "dead"
                /\ h_err.type = "ValueError"
                /\ h_type = ""
                /\ h_requests = << >>

\* A list of exactly one symbol has been turned down.
C11_Witness ==
    /\ h_pc = "dead"
    /\ h_args.symbols = ListSymbols(<<"A">>)
    /\ h_err.type = "ValueError"

\* The day start lies more than five years before the day today.
MoreThanFiveYearsBefore(start, today) ==
    DateStr(start) < DateStr(today) - 5 * 10000

\* C12: a fetch whose start date lies more than 5 years before the current
\* date raises ValueError, for Share and Batch alike, also when the start
\* year is exactly 5 less than the current year.
C12_OldStartRaisesValueError ==
    (HistFetched /\ MoreThanFiveYearsBefore(h_start, now)) =>
        /\ h_err.type = "ValueError"
        /\ h_requests = << >>

\* The buckets the API supports, and those shorter than rng.
Buckets == {"1y", "2y", "5y"}
Shorter(rng) == {b \in Buckets : YearsOf(b) < YearsOf(rng)}

\* C13: whenever chart_range returns, the bucket requested is the smallest
\* sufficient one of 1y, 2y and 5y: counted back from the current date it
\* reaches the start date, and no shorter bucket does.
C13_SmallestSufficientBucket ==
    (HistFetched /\ Len(h_requests) = 1) =>
        LET rng == h_requests[1].range
        IN  /\ rng \in Buckets
            /\ Reaches(rng, now, h_start)
            /\ \A b \in Shorter(rng) : ~Reaches(b, now, h_start)

\* The symbols of the reader's list that the response lacks.
Missing == {s \in Split(h_symlist) : s \notin DOMAIN h_resp.body}

\* C14: a fetch raises IEXSymbolError whenever a symbol of the reader's
\* symbol list is no key of the raw response, for a symbol asked for alone
\* and for one asked for next to valid symbols; nothing is then returned for
\* any symbol.
C14_MissingSymbolRaisesSymbolError ==
    (HistAnswered /\ Missing # {}) =>
        /\ h_err.type = "IEXSymbolError"
        /\ h_err.arg \in Missing
        /\ h_ret = NoRet

\* A batch whose response has a non-empty chart for A and nothing for B.
C14_Witness ==
    /\ HistAnswered
    /\ h_type = "Batch"
    /\ Missing = {"B"}
    /\ Len(h_resp.body["A"].chart) > 0
    /\ h_err = Raise("IEXSymbolError", "B")

\* The bars of the chart the response holds for s that lie between the start
\* and the end date, both included.
InWindow(s) ==
    LET chart == h_resp.body[s].chart
    IN  {chart[j] : j \in {i \in 1..Len(chart) :
                              /\ DateStr(h_start) <= chart[i].date
                              /\ chart[i].date <= DateStr(h_end)}}

\* C15: a successful fetch in json mode returns, for Share and Batch alike,
\* a mapping whose keys are exactly the requested symbols; each symbol maps
\* its date strings to exactly the bars of the response with
\* start <= date <= end, each reduced to open, high, low, close and volume.
C15_JsonWindow ==
    (HistFetched /\ h_err = NoError /\ h_output_format = "json") =>
        /\ h_ret.kind = "json"
        /\ DOMAIN h_ret.val = Split(h_symlist)
        /\ \A s \in Split(h_symlist) :
            /\ DOMAIN h_ret.val[s] = {b.date : b \in InWindow(s)}
            /\ \A b \in InWindow(s) :
                /\ DOMAIN h_ret.val[s][b.date] =
                       {"open", "high", "low", "close", "volume"}
                /\ \A f \in DOMAIN h_ret.val[s][b.date] :
                       h_ret.val[s][b.date][f] = b[f]

\* A batch in json mode whose window keeps a bar of the end date and one of
\* the start date, and leaves a bar of A out.
C15_Witness ==
    /\ HistFetched /\ h_err = NoError /\ h_output_format = "json"
    /\ h_type = "Batch"
    /\ DateStr(h_end) \in DOMAIN h_ret.val["A"]
    /\ DateStr(h_start) \in DOMAIN h_ret.val["B"]
    /\ Cardinality(DOMAIN h_ret.val["A"]) < Len(h_resp.body["A"].chart)

\* C17: the bucket follows delta = current year - start year: 2..5 gives
\* "5y", 1 gives "2y", 0 gives "1y"; every other delta (a start year in the
\* future, or more than 5 back) raises ValueError with nothing requested.
C17_BucketFromDelta ==
    HistFetched =>
        LET delta == now.year - h_start.year
            Requested(rng) ==
                /\ Len(h_requests) = 1
                /\ h_requests[1].range = rng
                /\ h_requests[1].types = "chart"
        IN  /\ delta \in 2..5 => Requested("5y")
            /\ delta = 1 => Requested("2y")
            /\ delta = 0 => Requested("1y")
            /\ (delta < 0 \/ delta > 5) =>
                /\ h_err.type = "ValueError"
                /\ h_requests = << >>
                /\ h_ret = NoRet

\* A start year two back requested "5y", on a reader of type Batch.
C17_Witness ==
    /\ HistFetched
    /\ now.year - h_start.year = 2
    /\ h_type = "Batch"
    /\ Len(h_requests) = 1
    /\ h_requests[1].range = "5y"
    /\ h_requests[1].symbols = "A,B"

====
